---- MODULE Spec2Model ----
(***************************************************************************)
(* AgriChain: the data-integrity pipeline of the server.                   *)
(*   HashService        src/Server/src/services/file.service.js            *)
(*   BlockchainService  src/Server/src/services/blockchain.service.js      *)
(*   DatabaseService    src/Server/src/services/database.service.js        *)
(*   AgriChainService   src/Server/src/services/agrichain.service.js       *)
(*                                                                         *)
(* JavaScript strings that the code inspects character by character (the   *)
(* digests) are sequences of one-character strings; JavaScript objects are *)
(* sequences of <<key, value>> pairs in insertion order; the tables of the *)
(* relational store are sequences of rows in insertion order.              *)
(***************************************************************************)
EXTENDS Integers, Sequences, FiniteSets, TLC

(* ------------------------------ bounds -------------------------------- *)

\* the clock runs from 0 to MaxClock milliseconds
MaxClock == 1

\* Store calls started in one behaviour
MaxStores == 2

\* Verify calls made in one behaviour
MaxVerifies == 1

\* files uploaded with one Store call
MaxFiles == 2

\* direct calls of storeHashOnBlockchain in one behaviour of SpecAnchor
MaxAnchors == 1

\* calls of the model layer (AgriculturalData, VerificationLogs) in one
\* behaviour of SpecModels
MaxModelCalls == 2

\* generateCombinedHash calls made in one behaviour of SpecCombined
MaxCombined == 2

\* HTTP requests received in one behaviour of SpecLimiter
MaxRequests == 5

\* the limiter of app.js, scaled: windowMs (15 minutes in the code) and
\* maxRequests (100 in the code)
GlobalWindowMs == 3

GlobalMaxRequests == 3

\* blockchainRateLimiter, scaled: windowMs (1 minute in the code) and
\* maxRequests (5 in the code)
BlockchainWindowMs == 1

BlockchainMaxRequests == 2

(* ------------------------- program constants -------------------------- *)

\* /^[a-fA-F0-9]{64}$/ : a digest body is 64 hex characters
HashHexLen == 64

\* String.prototype.slice(2) / the length of the "0x" prefix
PrefixLen == 2

(* ------------------------------ strings ------------------------------- *)

HexLower == <<"0", "1", "2", "3", "4", "5", "6", "7", "8", "9", "a", "b", "c", "d", "e", "f">>

HexUpper == <<"A", "B", "C", "D", "E", "F">>

Range(s) == {s[i] : i \in DOMAIN s}

\* the character class [a-fA-F0-9]
IsHexChar(c) == c \in Range(HexLower) \cup Range(HexUpper)

\* n copies of the character c
Rep(c, n) == [i \in 1..n |-> c]

\* String.prototype.startsWith("0x")
StartsWith0x(s) == Len(s) >= PrefixLen /\ s[1] = "0" /\ s[2] = "x"

\* String.prototype.slice(2)
Slice2(s) == IF Len(s) <= PrefixLen THEN <<>> ELSE SubSeq(s, PrefixLen + 1, Len(s))

\* the template literal `0x${s}`
With0x(s) == <<"0", "x">> \o s

(* ------------------------- JavaScript objects ------------------------- *)

Keys(o) == {o[i][1] : i \in DOMAIN o}

Has(o, k) == k \in Keys(o)

\* o[k]; the empty string stands for undefined (both are falsy)
Get(o, k) == IF Has(o, k) THEN o[CHOOSE i \in DOMAIN o : o[i][1] = k][2] ELSE ""

\* o[k] = v : an existing key keeps its place, a new key goes last
Put(o, k, v) ==
    IF Has(o, k)
    THEN [i \in DOMAIN o |-> IF o[i][1] = k THEN <<k, v>> ELSE o[i]]
    ELSE Append(o, <<k, v>>)

\* the object spread { ...a, ...b }
RECURSIVE Spread(_, _)
Spread(a, b) == IF b = <<>> THEN a ELSE Spread(Put(a, Head(b)[1], Head(b)[2]), Tail(b))

(* ----------------------------- JSON text ------------------------------- *)

\* JSON.stringify(o): the text as its sequence of tokens, key then value, in
\* key order; the one nested object of this program (farmerInfo) is written
\* between braces
RECURSIVE JSONStringify(_)
JSONStringify(o) ==
    IF o = <<>> THEN <<>>
    ELSE LET k == Head(o)[1]
             v == Head(o)[2]
         IN  (IF k = "farmerInfo"
              THEN <<k, "{">> \o JSONStringify(v) \o <<"}">>
              ELSE <<k, v>>) \o JSONStringify(Tail(o))

\* JSON.parse(text) of a flat object (the envelopes hold no nested object)
RECURSIVE JSONParse(_)
JSONParse(text) ==
    IF Len(text) < 2 THEN <<>>
    ELSE <<<<text[1], text[2]>>>> \o JSONParse(SubSeq(text, 3, Len(text)))

\* Date.prototype.toISOString() of the clock value t (milliseconds)
IsoTime ==
    <<"1970-01-01T00:00:00.000Z", "1970-01-01T00:00:00.001Z",
      "1970-01-01T00:00:00.002Z", "1970-01-01T00:00:00.003Z",
      "1970-01-01T00:00:00.004Z", "1970-01-01T00:00:00.005Z">>

ToISOString(t) == IsoTime[t + 1]

(* ------------------------------ HashService --------------------------- *)

\* every token a hashed text of this model can hold
TokenUniverse ==
    <<"farmerId", "productType", "harvestDate", "location", "quantity",
      "farmerInfo", "fullName", "timestamp", "version", "system", "{", "}",
      "", "F1", "F2", "Rice", "2024-01-01", "Delta", "999", "1000",
      "Ann", "Bob", "1.0", "AgriChain">> \o IsoTime \o <<"#", "x", "y">>

TokenCode(t) == CHOOSE i \in DOMAIN TokenUniverse : TokenUniverse[i] = t

ToHex2(n) == <<HexLower[(n \div 16) + 1], HexLower[(n % 16) + 1]>>

\* two hex characters for each token of the text
HexOfTokens(text) ==
    [i \in 1..(2 * Len(text)) |-> ToHex2(TokenCode(text[(i + 1) \div 2]))[2 - (i % 2)]]

\* crypto.createHash("sha256").update(text).digest("hex"): 64 lowercase hex
\* characters.  SHA-256 is taken as collision free: the digest is an
\* injective code of the text (two hex characters per token, padded with 0)
Sha256Hex(text) ==
    LET h == HexOfTokens(text)
    IN  IF Len(h) >= HashHexLen
        THEN SubSeq(h, Len(h) - HashHexLen + 1, Len(h))
        ELSE Rep("0", HashHexLen - Len(h)) \o h

\* generateHash(data) for an object
generateHash(data) == With0x(Sha256Hex(JSONStringify(data)))

\* verifyHash(data, hash)
verifyHash(data, hash) ==
    LET generatedHash == generateHash(data)
        cleanHash == IF StartsWith0x(hash) THEN hash ELSE With0x(hash)
    IN  generatedHash = cleanHash

requiredFields == <<"farmerId", "productType", "harvestDate", "location">>

\* requiredFields.filter((field) => !agriData[field])
missingFields(agriData) == SelectSeq(requiredFields, LAMBDA f : Get(agriData, f) = "")

\* a digest over the required fields alone: the other fields of the record
\* (quantity, farmerInfo, ...) are left out of the hashed object
dataWithRequiredFieldsOnly(agriData, now) ==
    Spread([i \in DOMAIN requiredFields |->
               <<requiredFields[i], Get(agriData, requiredFields[i])>>],
           <<<<"timestamp", ToISOString(now)>>,
             <<"version", "1.0">>,
             <<"system", "AgriChain">>>>)

\* { ...agriData, timestamp: new Date().toISOString(), version, system }
dataWithMetadata(agriData, now) ==
    Spread(agriData, <<<<"timestamp", ToISOString(now)>>,
                       <<"version", "1.0">>,
                       <<"system", "AgriChain">>>>)

\* createAgriDataHash(agriData) called when the clock shows now; it throws
\* when missingFields(agriData) is not empty
createAgriDataHash(agriData, now) ==
    LET d == dataWithMetadata(agriData, now)
    IN  [hash   |-> generateHash(d),
         data   |-> d,
         fields |-> [i \in DOMAIN d |-> d[i][1]],
         size   |-> Len(JSONStringify(d))]

\* the bytes of the uploaded files: fs.readFileSync(file.path)
FileContents == <<<<>>, <<"x">>, <<"y">>>>

\* crypto.createHash("sha256").update(fileBuffer).digest("hex")
FileDigest(content) == Sha256Hex(content)

\* the 64 characters of a file digest inside a text that is hashed again:
\* the digest is an injective code of the bytes, and it stands in the text
\* as the token "#" followed by the tokens of those bytes
DigestInText(content) == <<"#">> \o content

\* combinedContent += fileHash, for each file in the order of the array
RECURSIVE FilesContent(_)
FilesContent(files) ==
    IF files = <<>> THEN <<>>
    ELSE DigestInText(Head(files).content) \o FilesContent(Tail(files))

\* the fileInfo entry of one file
FileInfo(file) ==
    [originalName |-> file.originalname, hash |-> With0x(FileDigest(file.content))]

\* the result of generateCombinedHash for the content that was hashed
CombinedResult(data, files, combinedContent, now) ==
    [combinedHash |-> With0x(Sha256Hex(combinedContent)),
     dataHash |-> Sha256Hex(JSONStringify(data)),
     files |-> [i \in DOMAIN files |-> FileInfo(files[i])],
     metadata |-> [hasFiles |-> Len(files) > 0,
                   fileCount |-> Len(files),
                   dataSize |-> Len(JSONStringify(data)),
                   timestamp |-> ToISOString(now)]]

\* the files with their digests in ascending order of the bytes
SortedByContent(files) ==
    IF Len(files) = 2
       /\ (CHOOSE i \in DOMAIN FileContents : FileContents[i] = files[1].content)
          > (CHOOSE i \in DOMAIN FileContents : FileContents[i] = files[2].content)
    THEN <<files[2], files[1]>>
    ELSE files

\* generateCombinedHash that sorts the file digests before it joins them
generateCombinedHashSorted(data, files, now) ==
    CombinedResult(data, files,
                   JSONStringify(data) \o FilesContent(SortedByContent(files)), now)

\* generateCombinedHash(data, files) at the time now
generateCombinedHash(data, files, now) ==
    CombinedResult(data, files, JSONStringify(data) \o FilesContent(files), now)

(* ----------------------------- inputs --------------------------------- *)

\* req.body of a Store or Verify request
MkAgri(farmerId, location, quantity, fullName) ==
    <<<<"farmerId", farmerId>>, <<"productType", "Rice">>,
      <<"harvestDate", "2024-01-01">>, <<"location", location>>,
      <<"quantity", quantity>>>>
    \o (IF fullName = "" THEN <<>>
        ELSE <<<<"farmerInfo", <<<<"fullName", fullName>>>>>>>>)

\* a record, the same record with another quantity and a farmerInfo, and a
\* record whose location is missing
AgriInputs ==
    {MkAgri("F1", "Delta", "1000", ""),
     MkAgri("F1", "Delta", "999", "Ann"),
     MkAgri("F1", "", "1000", "Bob")}

FileNames == <<"a.jpg", "b.jpg", "c.jpg", "d.jpg">>

\* req.files: no file, or MaxFiles uploaded files
FileInputs == {[i \in 1..n |-> [originalname |-> FileNames[i]]] : n \in {0, MaxFiles}}

\* the files handed to generateCombinedHash: none, one or two files
CombinedFiles ==
    {[originalname |-> n, content |-> FileContents[i]] :
        n \in {"a.jpg", "b.jpg"}, i \in DOMAIN FileContents}

CombinedFileInputs ==
    {<<>>} \cup {<<f>> : f \in CombinedFiles}
           \cup {<<f, g>> : f \in CombinedFiles, g \in CombinedFiles}

(* ------------------------------- state -------------------------------- *)

\* the workers that serve Store requests, one request each at a time
Procs == {1, 2}

\* the caller that uses BlockchainService directly
Direct == 0

\* req.ip of the clients that send HTTP requests
Clients == {"A", "B"}

\* the limiter instances that a request passes: the one of app.js and
\* blockchainRateLimiter
Limiters == {"global", "blockchain"}

\* GET /api/health, GET /api/agrichain/retrieve/:identifier,
\* POST /api/agrichain/store, GET /api/files/stats
Routes == {"health", "retrieve", "store", "files"}

\* no request of the client was received yet
NoRequest == [route |-> "", at |-> "none"]

VARIABLES
    clock,                    \* Date.now(), in milliseconds
    ledger,                   \* the chain: transactions of the wallet, by nonce
    farmers,                  \* table farmers
    agricultural_data,        \* table agricultural_data
    blockchain_transactions,  \* table blockchain_transactions
    uploaded_files,           \* table uploaded_files
    verification_logs,        \* table verification_logs
    system_logs,              \* table system_logs
    storedInput,              \* history: the request body each row was stored from
    call,                     \* the Store (or direct anchor) call of each worker
    storeCalls,               \* Store calls started
    verifyCalls,              \* Verify calls made
    lastVerify,               \* outcome of the latest Verify call
    anchorCalls,              \* direct storeHashOnBlockchain calls started
    recovered,                \* outcome of the latest retrieveHashFromBlockchain
    lastRetrieve,             \* outcome of the latest retrieveAgriData
    modelCalls,               \* calls of the model layer made
    combinedCalls,            \* the generateCombinedHash calls made, with results
    requestStore,             \* rateLimiter: the Map requestStore, by client
    request,                  \* the HTTP request of each client, and its position
    admitted,                 \* history: the times each limiter called next, by client
    requestCount              \* HTTP requests received

\* the state of generateCombinedHash's callers and of the rate limiter,
\* which the pipeline leaves alone
utilVars == <<combinedCalls, requestStore, request, admitted, requestCount>>

vars ==
    <<clock, ledger, farmers, agricultural_data, blockchain_transactions,
      uploaded_files, verification_logs, system_logs, storedInput, call,
      storeCalls, verifyCalls, lastVerify, anchorCalls, recovered,
      lastRetrieve, modelCalls, utilVars>>

dbVars ==
    <<farmers, agricultural_data, blockchain_transactions, uploaded_files,
      verification_logs, system_logs, storedInput>>

IdleCall ==
    [pc |-> "idle", agriData |-> <<>>, files |-> <<>>, hash |-> <<>>,
     metadata |-> <<>>, payload |-> <<>>, tx |-> <<>>, anchored |-> FALSE,
     rowStored |-> FALSE, dataId |-> 0, filesStored |-> 0, err |-> ""]

NoVerify ==
    [called |-> FALSE, data |-> <<>>, dataId |-> 0, status |-> "", err |-> "",
     logged |-> FALSE]

NoRecover == [called |-> FALSE, tx |-> <<>>, status |-> "", storedHash |-> <<>>, decoded |-> FALSE]

\* id is 0 when the identifier is a hash, hash is empty when it is an id
NoRetrieve ==
    [called |-> FALSE, type |-> "", id |-> 0, hash |-> <<>>, db |-> "",
     ledger |-> "", success |-> FALSE, err |-> "", record |-> <<>>,
     files |-> <<>>, verificationHistory |-> <<>>, blockchainConfirmed |-> FALSE,
     proofConfirmed |-> FALSE]

Init ==
    /\ clock = 0
    /\ ledger = <<>>
    /\ farmers = <<>>
    /\ agricultural_data = <<>>
    /\ blockchain_transactions = <<>>
    /\ uploaded_files = <<>>
    /\ verification_logs = <<>>
    /\ system_logs = <<>>
    /\ storedInput = <<>>
    /\ call = [p \in {Direct} \cup Procs |-> IdleCall]
    /\ storeCalls = 0
    /\ verifyCalls = 0
    /\ lastVerify = NoVerify
    /\ anchorCalls = 0
    /\ recovered = NoRecover
    /\ lastRetrieve = NoRetrieve
    /\ modelCalls = 0
    /\ combinedCalls = <<>>
    /\ requestStore = [c \in {} |-> <<>>]
    /\ request = [c \in Clients |-> NoRequest]
    /\ admitted = [l \in Limiters |-> [c \in Clients |-> <<>>]]
    /\ requestCount = 0

\* the clock advances by one millisecond
Tick ==
    /\ clock < MaxClock
    /\ clock' = clock + 1
    /\ UNCHANGED <<ledger, dbVars, call, storeCalls, verifyCalls, lastVerify,
                   anchorCalls, recovered, lastRetrieve, modelCalls, utilVars>>

\* the catch blocks: the call c ends with the error err
Failed(c, err) == [c EXCEPT !.pc = "failed", !.err = err]

Fail(p, err) == [call EXCEPT ![p] = Failed(call[p], err)]

\* the Store call of worker p is over
Returned(p) == call[p].pc \in {"done", "failed"}

(* --------------------------- BlockchainService ------------------------ *)

\* !hash || typeof hash !== "string"  (the inputs of the model are strings)
HashMissing(hash) == hash = <<>>

\* hash.startsWith("0x") ? hash.slice(2) : hash
CleanHash(hash) == IF StartsWith0x(hash) THEN Slice2(hash) ELSE hash

\* /^[a-fA-F0-9]{64}$/.test(cleanHash)
HashFormatOk(cleanHash) ==
    /\ Len(cleanHash) = HashHexLen
    /\ \A i \in DOMAIN cleanHash : IsHexChar(cleanHash[i])

\* { timestamp: new Date().toISOString(), hash: `0x${cleanHash}`, ...metadata }
TxData(cleanHash, metadata, now) ==
    Spread(<<<<"timestamp", ToISOString(now)>>, <<"hash", With0x(cleanHash)>>>>,
           metadata)

\* ethers.hexlify(ethers.toUtf8Bytes(JSON.stringify(txData)))
HexData(txData) == [kind |-> "utf8-json", text |-> JSONStringify(txData)]

\* the hash of the transaction with nonce n (never the digest of a record:
\* those begin with 0)
TxHash(n) == With0x(Rep("f", HashHexLen - 2) \o ToHex2(n))

\* storeHashOnBlockchain(hash, metadata), up to the call of
\* wallet.sendTransaction, for the call c
StoreHashBegin(c, hash, metadata) ==
    IF HashMissing(hash) THEN Failed([c EXCEPT !.hash = hash], "INVALID_HASH")
    ELSE IF ~HashFormatOk(CleanHash(hash))
    THEN Failed([c EXCEPT !.hash = hash], "INVALID_HASH_LENGTH")
    ELSE [c EXCEPT !.pc = "sending",
                   !.hash = hash,
                   !.metadata = metadata,
                   !.payload = HexData(TxData(CleanHash(hash), metadata, clock))]

\* wallet.sendTransaction inside a retry loop: after an RPC failure the
\* transaction may have been broadcast, and the call submits again
TxSendWithRetry(p) ==
    /\ call[p].pc = "sending"
    /\ \E ok \in BOOLEAN :
        /\ ledger' = Append(ledger, [hash |-> TxHash(Len(ledger) + 1),
                                       data |-> call[p].payload,
                                       status |-> "pending"])
        /\ call' = IF ok
                   THEN [call EXCEPT ![p].pc = "waiting",
                                     ![p].tx = TxHash(Len(ledger) + 1)]
                   ELSE call
    /\ UNCHANGED <<clock, dbVars, storeCalls, verifyCalls, lastVerify,
                   anchorCalls, recovered, lastRetrieve, modelCalls, utilVars>>

\* await wallet.sendTransaction({to: wallet.address, value: 0, data}): the
\* transaction is accepted by the network, or the RPC fails
TxSend(p) ==
    /\ call[p].pc = "sending"
    /\ \E ok \in BOOLEAN :
        IF ok
        THEN /\ ledger' = Append(ledger, [hash |-> TxHash(Len(ledger) + 1),
                                            data |-> call[p].payload,
                                            status |-> "pending"])
             /\ call' = [call EXCEPT ![p].pc = "waiting",
                                     ![p].tx = TxHash(Len(ledger) + 1)]
        ELSE /\ call' = Fail(p, "HASH_STORAGE_ERROR")
             /\ UNCHANGED ledger
    /\ UNCHANGED <<clock, dbVars, storeCalls, verifyCalls, lastVerify,
                   anchorCalls, recovered, lastRetrieve, modelCalls, utilVars>>

TxIndex(txHash) == CHOOSE i \in DOMAIN ledger : ledger[i].hash = txHash

\* await tx.wait(), then await provider.getNetwork(): the receipt arrives
\* with success, the transaction is reverted, or the network query fails
\* after the receipt
TxWait(p) ==
    /\ call[p].pc = "waiting"
    /\ \E outcome \in {"success", "reverted", "rpc-failed"} :
        /\ ledger' = [ledger EXCEPT ![TxIndex(call[p].tx)].status =
                          IF outcome = "reverted" THEN "reverted" ELSE "success"]
        /\ call' = IF outcome = "success"
                   THEN [call EXCEPT ![p].pc = "anchored", ![p].anchored = TRUE]
                   ELSE IF outcome = "reverted"
                   THEN Fail(p, "HASH_STORAGE_ERROR")
                   ELSE [Fail(p, "HASH_STORAGE_ERROR") EXCEPT ![p].anchored = TRUE]
    /\ UNCHANGED <<clock, dbVars, storeCalls, verifyCalls, lastVerify,
                   anchorCalls, recovered, lastRetrieve, modelCalls, utilVars>>

(* ---------------------------- DatabaseService ------------------------- *)

\* farmerInfo.fullName || `Farmer ${farmerId}`
FullNameOf(farmerId, farmerInfo) ==
    IF Get(farmerInfo, "fullName") # "" THEN Get(farmerInfo, "fullName")
    ELSE IF farmerId = "F1" THEN "Farmer F1"
    ELSE IF farmerId = "F2" THEN "Farmer F2"
    ELSE "Farmer"

\* agriData.farmerInfo || {}
FarmerInfoOf(agriData) ==
    IF Has(agriData, "farmerInfo") THEN Get(agriData, "farmerInfo") ELSE <<>>

\* SELECT farmer_id FROM farmers WHERE farmer_id = @farmerId
FarmerRows(farmerId) == SelectSeq(farmers, LAMBDA r : r.farmer_id = farmerId)

\* the row that ensureFarmerExists inserts
FarmerRow(farmerId, farmerInfo) ==
    [farmer_id |-> farmerId,
     full_name |-> FullNameOf(farmerId, farmerInfo),
     certification_level |-> "Standard"]

\* ensureFarmerExists without the test of the recordset: the INSERT is
\* issued whether or not the farmer has a row
FarmerCheckAlwaysInsert(p) ==
    /\ call[p].pc = "anchored"
    /\ \E ok \in BOOLEAN :
        call' = IF ~ok THEN Fail(p, "DB_ERROR")
                ELSE [call EXCEPT ![p].pc = "farmerInsert"]
    /\ UNCHANGED <<clock, ledger, dbVars, storeCalls, verifyCalls, lastVerify,
                   anchorCalls, recovered, lastRetrieve, modelCalls, utilVars>>

\* ensureFarmerExists, first statement: the SELECT.  The worker goes on to
\* the INSERT when the recordset is empty
FarmerCheck(p) ==
    /\ call[p].pc = "anchored"
    /\ \E ok \in BOOLEAN :
        call' = IF ~ok THEN Fail(p, "DB_ERROR")
                ELSE IF Len(FarmerRows(Get(call[p].agriData, "farmerId"))) = 0
                THEN [call EXCEPT ![p].pc = "farmerInsert"]
                ELSE [call EXCEPT ![p].pc = "farmerOk"]
    /\ UNCHANGED <<clock, ledger, dbVars, storeCalls, verifyCalls, lastVerify,
                   anchorCalls, recovered, lastRetrieve, modelCalls, utilVars>>

\* ensureFarmerExists, second statement: the INSERT; farmer_id is the
\* primary key of farmers, so the engine refuses a second row for one id
FarmerInsert(p) ==
    /\ call[p].pc = "farmerInsert"
    /\ LET farmerId == Get(call[p].agriData, "farmerId")
       IN  \E ok \in BOOLEAN :
            IF ~ok
            THEN /\ call' = Fail(p, "DB_ERROR")
                 /\ UNCHANGED farmers
            ELSE IF Len(FarmerRows(farmerId)) > 0
            THEN /\ call' = Fail(p, "PRIMARY_KEY_farmers")
                 /\ UNCHANGED farmers
            ELSE /\ farmers' = Append(farmers,
                                      FarmerRow(farmerId, FarmerInfoOf(call[p].agriData)))
                 /\ call' = [call EXCEPT ![p].pc = "farmerOk"]
    /\ UNCHANGED <<clock, ledger, agricultural_data, blockchain_transactions,
                   uploaded_files, verification_logs, system_logs, storedInput,
                   storeCalls, verifyCalls, lastVerify, anchorCalls, recovered, lastRetrieve, modelCalls, utilVars>>

\* a row whose data_hash column is given the transaction hash
AgriRowHashFromTx(dataId, agriData, dataHash, transactionHash, files) ==
    [data_id |-> dataId,
     farmer_id |-> Get(agriData, "farmerId"),
     product_type |-> Get(agriData, "productType"),
     location |-> Get(agriData, "location"),
     harvest_date |-> Get(agriData, "harvestDate"),
     quantity |-> Get(agriData, "quantity"),
     notes |-> Get(agriData, "notes"),
     data_hash |-> transactionHash,
     transaction_hash |-> transactionHash,
     has_files |-> Len(files) > 0,
     file_count |-> Len(files),
     status |-> "Active"]

\* the row that sp_StoreAgriData inserts (data_id is the IDENTITY column)
AgriRow(dataId, agriData, dataHash, transactionHash, files) ==
    [data_id |-> dataId,
     farmer_id |-> Get(agriData, "farmerId"),
     product_type |-> Get(agriData, "productType"),
     location |-> Get(agriData, "location"),
     harvest_date |-> Get(agriData, "harvestDate"),
     quantity |-> Get(agriData, "quantity"),
     notes |-> Get(agriData, "notes"),
     data_hash |-> dataHash,
     transaction_hash |-> transactionHash,
     has_files |-> Len(files) > 0,
     file_count |-> Len(files),
     status |-> "Active"]

\* executeProcedure("sp_StoreAgriData", params): one INSERT in its own
\* transaction, committed when the procedure returns
StoreRow(p) ==
    /\ call[p].pc = "farmerOk"
    /\ \E ok \in BOOLEAN :
        IF ok
        THEN /\ agricultural_data' =
                    Append(agricultural_data,
                           AgriRow(Len(agricultural_data) + 1, call[p].agriData,
                                   call[p].hash, call[p].tx, call[p].files))
             /\ storedInput' = Append(storedInput, call[p].agriData)
             /\ call' = [call EXCEPT ![p].pc = "rowStored",
                                     ![p].rowStored = TRUE,
                                     ![p].dataId = Len(agricultural_data) + 1]
        ELSE /\ call' = Fail(p, "DB_ERROR")
             /\ UNCHANGED <<agricultural_data, storedInput>>
    /\ UNCHANGED <<clock, ledger, farmers, blockchain_transactions, uploaded_files,
                   verification_logs, system_logs, storeCalls, verifyCalls,
                   lastVerify, anchorCalls, recovered, lastRetrieve, modelCalls, utilVars>>

\* where the call goes after storeBlockchainTransaction
AfterTx(p) == IF Len(call[p].files) > 0 THEN "files" ELSE "logOperation"

\* storeBlockchainTransaction with a catch that throws every error again:
\* the violation of the UNIQUE constraint ends the call
StoreTxDuplicateThrows(p) ==
    /\ call[p].pc = "rowStored"
    /\ \E ok \in BOOLEAN :
        IF ~ok
        THEN /\ call' = Fail(p, "DB_ERROR")
             /\ UNCHANGED blockchain_transactions
        ELSE IF \E i \in DOMAIN blockchain_transactions :
                    blockchain_transactions[i].transaction_hash = call[p].tx
        THEN /\ call' = Fail(p, "UNIQUE_KEY_blockchain_transactions")
             /\ UNCHANGED blockchain_transactions
        ELSE /\ blockchain_transactions' =
                    Append(blockchain_transactions,
                           [transaction_hash |-> call[p].tx, status |-> "Confirmed"])
             /\ call' = [call EXCEPT ![p].pc = AfterTx(p)]
    /\ UNCHANGED <<clock, ledger, farmers, agricultural_data, uploaded_files,
                   verification_logs, system_logs, storedInput, storeCalls,
                   verifyCalls, lastVerify, anchorCalls, recovered, lastRetrieve,
                   modelCalls, utilVars>>

\* storeBlockchainTransaction: the INSERT; a duplicate transaction_hash
\* (UNIQUE) is caught and ignored, any other error is thrown again
StoreTx(p) ==
    /\ call[p].pc = "rowStored"
    /\ \E ok \in BOOLEAN :
        IF ~ok
        THEN /\ call' = Fail(p, "DB_ERROR")
             /\ UNCHANGED blockchain_transactions
        ELSE IF \E i \in DOMAIN blockchain_transactions :
                    blockchain_transactions[i].transaction_hash = call[p].tx
        THEN /\ call' = [call EXCEPT ![p].pc = AfterTx(p)]
             /\ UNCHANGED blockchain_transactions
        ELSE /\ blockchain_transactions' =
                    Append(blockchain_transactions,
                           [transaction_hash |-> call[p].tx, status |-> "Confirmed"])
             /\ call' = [call EXCEPT ![p].pc = AfterTx(p)]
    /\ UNCHANGED <<clock, ledger, farmers, agricultural_data, uploaded_files,
                   verification_logs, system_logs, storedInput, storeCalls,
                   verifyCalls, lastVerify, anchorCalls, recovered, lastRetrieve, modelCalls, utilVars>>

\* file.hash || "" : the value bound to @fileHash; the objects that multer
\* puts in req.files have no property hash
FileHashParam(file) ==
    IF "hash" \in DOMAIN file THEN file.hash ELSE ""

\* storeFileMetadata: one turn of the loop, the INSERT of the next file
StoreFile(p) ==
    /\ call[p].pc = "files"
    /\ \E ok \in BOOLEAN :
        IF ok
        THEN LET n == call[p].filesStored + 1
             IN  /\ uploaded_files' =
                        Append(uploaded_files,
                               [data_id |-> call[p].dataId,
                                original_name |-> call[p].files[n].originalname,
                                file_hash |-> FileHashParam(call[p].files[n])])
                 /\ call' = [call EXCEPT
                                ![p].filesStored = n,
                                ![p].pc = IF n = Len(call[p].files)
                                          THEN "logOperation" ELSE "files"]
        ELSE /\ call' = Fail(p, "DB_ERROR")
             /\ UNCHANGED uploaded_files
    /\ UNCHANGED <<clock, ledger, farmers, agricultural_data, blockchain_transactions,
                   verification_logs, system_logs, storedInput, storeCalls,
                   verifyCalls, lastVerify, anchorCalls, recovered, lastRetrieve, modelCalls, utilVars>>

\* logOperation("STORE_DATA", ...): the INSERT into system_logs, whose
\* failure is caught; then both storeAgriData functions return
LogOperation(p) ==
    /\ call[p].pc = "logOperation"
    /\ \E ok \in BOOLEAN :
        system_logs' = IF ok
                       THEN Append(system_logs,
                                   [message |-> "STORE_DATA", dataId |-> call[p].dataId])
                       ELSE system_logs
    /\ call' = [call EXCEPT ![p].pc = "done"]
    /\ UNCHANGED <<clock, ledger, farmers, agricultural_data, blockchain_transactions,
                   uploaded_files, verification_logs, storedInput, storeCalls,
                   verifyCalls, lastVerify, anchorCalls, recovered, lastRetrieve, modelCalls, utilVars>>

(* ---------------------------- AgriChainService ------------------------ *)

\* the metadata that storeAgriData passes to storeHashOnBlockchain
StoreMetadata(agriData, hashResult) ==
    <<<<"farmerId", Get(agriData, "farmerId")>>,
      <<"productType", Get(agriData, "productType")>>,
      <<"harvestDate", Get(agriData, "harvestDate")>>,
      <<"dataSize", hashResult.size>>,
      <<"fieldsCount", Len(hashResult.fields)>>>>

\* storeAgriData with a createAgriDataHash that does not test the required
\* fields: every record is hashed and handed to storeHashOnBlockchain
StoreBeginUnchecked(agriData, files) ==
    LET c == [IdleCall EXCEPT !.agriData = agriData, !.files = files]
        hashResult == createAgriDataHash(agriData, clock)
    IN  StoreHashBegin(c, hashResult.hash, StoreMetadata(agriData, hashResult))

\* AgriChainService.storeAgriData(agriData, files), up to its first await:
\* createAgriDataHash, then storeHashOnBlockchain up to sendTransaction
StoreBegin(agriData, files) ==
    LET c == [IdleCall EXCEPT !.agriData = agriData, !.files = files]
    IN  IF missingFields(agriData) # <<>>
        THEN Failed(c, "MISSING_FIELDS")
        ELSE LET hashResult == createAgriDataHash(agriData, clock)
             IN  StoreHashBegin(c, hashResult.hash,
                                StoreMetadata(agriData, hashResult))

StoreCall(p, agriData, files) ==
    /\ call[p].pc \in {"idle", "done", "failed"}
    /\ storeCalls < MaxStores
    /\ storeCalls' = storeCalls + 1
    /\ call' = [call EXCEPT ![p] = StoreBegin(agriData, files)]
    /\ UNCHANGED <<clock, ledger, dbVars, verifyCalls, lastVerify, anchorCalls,
                   recovered, lastRetrieve, modelCalls, utilVars>>

\* DatabaseService.retrieveAgriData: the rows its WHERE clause selects
MatchingRows(identifier, type) ==
    SelectSeq(agricultural_data,
              LAMBDA r : IF type = "id" THEN r.data_id = identifier
                         ELSE r.transaction_hash = identifier
                              \/ r.data_hash = identifier)

\* the row of verification_logs that logVerification inserts
VerificationRow(dataId, isValid, details, now) ==
    [data_id |-> dataId,
     transaction_hash |-> details.transactionHash,
     verification_method |-> "hash_comparison",
     is_valid |-> isValid,
     stored_hash |-> details.storedHash,
     current_hash |-> details.currentHash,
     verification_date |-> now]

\* a comparison that logs as currentHash the digest of the caller's object
\* as it came, not of the object that was compared
VerifyResultLogsRawDigest(originalData, storedData, now) ==
    LET currentHashResult == createAgriDataHash(originalData, now)
        isValid == verifyHash(currentHashResult.data, storedData.data_hash)
    IN  [isValid |-> isValid,
         status |-> IF isValid THEN "VERIFIED" ELSE "TAMPERED",
         details |-> [transactionHash |-> storedData.transaction_hash,
                      currentHash |-> generateHash(originalData),
                      storedHash |-> storedData.data_hash]]

\* verifyAgriDataIntegrity(originalData, identifier, type): dbOk says
\* whether the SELECT of retrieveAgriData succeeds, storedData is
\* recordset[0], logOk says whether the INSERT of logVerification succeeds
VerifyResult(originalData, storedData, now) ==
    LET currentHashResult == createAgriDataHash(originalData, now)
        isValid == verifyHash(currentHashResult.data, storedData.data_hash)
    IN  [isValid |-> isValid,
         status |-> IF isValid THEN "VERIFIED" ELSE "TAMPERED",
         details |-> [transactionHash |-> storedData.transaction_hash,
                      currentHash |-> currentHashResult.hash,
                      storedHash |-> storedData.data_hash]]

\* the error that ends verifyAgriDataIntegrity before the comparison: the
\* SELECT failed, no row matched, or createAgriDataHash threw
VerifyError(originalData, rows, dbOk) ==
    IF ~dbOk THEN "DB_ERROR"
    ELSE IF Len(rows) = 0 THEN "NOT_FOUND"
    ELSE IF missingFields(originalData) # <<>> THEN "MISSING_FIELDS"
    ELSE ""

\* verifyAgriDataIntegrity with a logVerification that throws when its
\* INSERT fails: the caller gets the error in place of the verdict
VerifyLogFailureThrows(originalData, identifier, type) ==
    /\ verifyCalls < MaxVerifies
    /\ verifyCalls' = verifyCalls + 1
    /\ \E dbOk, logOk \in BOOLEAN :
        LET rows == MatchingRows(identifier, type)
            err == VerifyError(originalData, rows, dbOk)
        IN  IF err # "" \/ ~logOk
            THEN /\ lastVerify' = [called |-> TRUE, data |-> originalData,
                                   dataId |-> IF dbOk /\ Len(rows) > 0
                                              THEN rows[1].data_id ELSE 0,
                                   status |-> "ERROR",
                                   err |-> IF err # "" THEN err ELSE "DB_ERROR",
                                   logged |-> FALSE]
                 /\ UNCHANGED verification_logs
            ELSE LET res == VerifyResult(originalData, rows[1], clock)
                 IN  /\ verification_logs' =
                            Append(verification_logs,
                                   VerificationRow(rows[1].data_id, res.isValid,
                                                   res.details, clock))
                     /\ lastVerify' = [called |-> TRUE, data |-> originalData,
                                       dataId |-> rows[1].data_id,
                                       status |-> res.status, err |-> "",
                                       logged |-> TRUE]
    /\ UNCHANGED <<clock, ledger, farmers, agricultural_data, blockchain_transactions,
                   uploaded_files, system_logs, storedInput, call, storeCalls,
                   anchorCalls, recovered, lastRetrieve, modelCalls, utilVars>>

Verify(originalData, identifier, type) ==
    /\ verifyCalls < MaxVerifies
    /\ verifyCalls' = verifyCalls + 1
    /\ \E dbOk, logOk \in BOOLEAN :
        LET rows == MatchingRows(identifier, type)
            err == VerifyError(originalData, rows, dbOk)
        IN  IF err # ""
            THEN /\ lastVerify' = [called |-> TRUE, data |-> originalData,
                                   dataId |-> IF dbOk /\ Len(rows) > 0
                                              THEN rows[1].data_id ELSE 0,
                                   status |-> "ERROR", err |-> err,
                                   logged |-> FALSE]
                 /\ UNCHANGED verification_logs
            ELSE LET storedData == rows[1]
                     res == VerifyResult(originalData, storedData, clock)
                 IN  /\ verification_logs' =
                            IF logOk
                            THEN Append(verification_logs,
                                        VerificationRow(storedData.data_id, res.isValid,
                                                        res.details, clock))
                            ELSE verification_logs
                     /\ lastVerify' = [called |-> TRUE, data |-> originalData,
                                       dataId |-> storedData.data_id,
                                       status |-> res.status, err |-> "",
                                       logged |-> logOk]
    /\ UNCHANGED <<clock, ledger, farmers, agricultural_data, blockchain_transactions,
                   uploaded_files, system_logs, storedInput, call, storeCalls,
                   anchorCalls, recovered, lastRetrieve, modelCalls, utilVars>>

\* the identifiers a client can know: a digest or a transaction hash of a
\* stored row, and one hash that matches nothing
KnownHashes ==
    {agricultural_data[i].data_hash : i \in DOMAIN agricultural_data}
    \cup {agricultural_data[i].transaction_hash : i \in DOMAIN agricultural_data}
    \cup {TxHash(0)}

\* a verification by id that writes its verdict into the status column of
\* the record it read
VerifyByIdMarksRecord ==
    \E d \in AgriInputs, n \in 1..(Len(agricultural_data) + 1) :
        /\ verifyCalls < MaxVerifies
        /\ verifyCalls' = verifyCalls + 1
        /\ \E dbOk, logOk \in BOOLEAN :
            LET rows == MatchingRows(n, "id")
                err == VerifyError(d, rows, dbOk)
            IN  IF err # ""
                THEN /\ lastVerify' = [called |-> TRUE, data |-> d,
                                       dataId |-> IF dbOk /\ Len(rows) > 0
                                                  THEN rows[1].data_id ELSE 0,
                                       status |-> "ERROR", err |-> err,
                                       logged |-> FALSE]
                     /\ UNCHANGED <<verification_logs, agricultural_data>>
                ELSE LET res == VerifyResult(d, rows[1], clock)
                     IN  /\ verification_logs' =
                                IF logOk
                                THEN Append(verification_logs,
                                            VerificationRow(rows[1].data_id, res.isValid,
                                                            res.details, clock))
                                ELSE verification_logs
                         /\ agricultural_data' =
                                [agricultural_data EXCEPT ![n].status = res.status]
                         /\ lastVerify' = [called |-> TRUE, data |-> d,
                                           dataId |-> rows[1].data_id,
                                           status |-> res.status, err |-> "",
                                           logged |-> logOk]
        /\ UNCHANGED <<clock, ledger, farmers, blockchain_transactions,
                       uploaded_files, system_logs, storedInput, call, storeCalls,
                       anchorCalls, recovered, lastRetrieve, modelCalls, utilVars>>

VerifyById == \E d \in AgriInputs, n \in 1..(Len(agricultural_data) + 1) : Verify(d, n, "id")

VerifyByHash == \E d \in AgriInputs, h \in KnownHashes : Verify(d, h, "hash")

(* ------------------- BlockchainService, called directly --------------- *)

\* digests handed to storeHashOnBlockchain: the canonical shape, and shapes
\* that differ from it in the prefix, the case, the length or the alphabet
DigestInput(i) ==
    CASE i = 1 -> With0x(Rep("a", HashHexLen))
      [] i = 2 -> Rep("a", HashHexLen)
      [] i = 3 -> With0x(Rep("A", HashHexLen))
      [] i = 4 -> With0x(Rep("a", HashHexLen - 1))
      [] i = 5 -> With0x(Rep("a", HashHexLen + 1))
      [] i = 6 -> With0x(Rep("g", HashHexLen))
      [] i = 7 -> <<"0", "X">> \o Rep("a", HashHexLen)
      [] i = 8 -> <<>>

DigestInputs == 1..8

\* metadata objects handed to storeHashOnBlockchain
MetadataInput(i) ==
    CASE i = 1 -> <<>>
      [] i = 2 -> <<<<"farmerId", "F1">>, <<"productType", "Rice">>>>
      [] i = 3 -> <<<<"hash", With0x(Rep("b", HashHexLen))>>>>
      [] i = 4 -> <<<<"timestamp", "yesterday">>, <<"note", "x">>>>

MetadataInputs == 1..4

\* a direct call of storeHashOnBlockchain(hash, metadata)
AnchorCall(hash, metadata) ==
    /\ call[Direct].pc \in {"idle", "anchored", "failed"}
    /\ anchorCalls < MaxAnchors
    /\ anchorCalls' = anchorCalls + 1
    /\ call' = [call EXCEPT ![Direct] = StoreHashBegin(IdleCall, hash, metadata)]
    /\ UNCHANGED <<clock, ledger, dbVars, storeCalls, verifyCalls, lastVerify,
                   recovered, lastRetrieve, modelCalls, utilVars>>

\* ethers.isHexString(transactionHash, 32)
IsHexString32(s) ==
    /\ StartsWith0x(s)
    /\ Len(s) = PrefixLen + HashHexLen
    /\ \A i \in (PrefixLen + 1)..Len(s) : IsHexChar(s[i])

\* the body of retrieveHashFromBlockchain once the RPC calls have answered:
\* getTransaction, getTransactionReceipt (null while the transaction is
\* pending), then the decoding of tx.data
RecoverResult(transactionHash) ==
    LET found == {i \in DOMAIN ledger : ledger[i].hash = transactionHash}
    IN  IF transactionHash = <<>> \/ ~IsHexString32(transactionHash)
        THEN [NoRecover EXCEPT !.called = TRUE, !.tx = transactionHash,
                               !.status = "INVALID_TX_HASH"]
        ELSE IF found = {}
        THEN [NoRecover EXCEPT !.called = TRUE, !.tx = transactionHash,
                               !.status = "TX_NOT_FOUND"]
        ELSE LET tx == ledger[CHOOSE i \in found : TRUE]
             IN  IF tx.status = "pending"
                 THEN [NoRecover EXCEPT !.called = TRUE, !.tx = transactionHash,
                                        !.status = "TX_NOT_CONFIRMED"]
                 ELSE LET decodes == tx.data.kind = "utf8-json"
                          decodedData == IF decodes THEN JSONParse(tx.data.text)
                                         ELSE <<>>
                      IN  [called |-> TRUE,
                           tx |-> transactionHash,
                           status |-> IF tx.status = "success" THEN "success"
                                      ELSE "failed",
                           storedHash |-> IF decodes /\ Has(decodedData, "hash")
                                          THEN Get(decodedData, "hash") ELSE <<>>,
                           decoded |-> decodes]

\* retrieveHashFromBlockchain(transactionHash); an RPC failure ends it with
\* HASH_RETRIEVAL_ERROR
RecoverOutcome(transactionHash, ok) ==
    IF ok \/ ~IsHexString32(transactionHash)
    THEN RecoverResult(transactionHash)
    ELSE [NoRecover EXCEPT !.called = TRUE, !.tx = transactionHash,
                           !.status = "HASH_RETRIEVAL_ERROR"]

Recover(transactionHash) ==
    /\ \E ok \in BOOLEAN : recovered' = RecoverOutcome(transactionHash, ok)
    /\ UNCHANGED <<clock, ledger, dbVars, call, storeCalls, verifyCalls, lastVerify,
                   anchorCalls, lastRetrieve, modelCalls, utilVars>>

RecoverAny ==
    \E h \in {ledger[i].hash : i \in DOMAIN ledger} \cup {TxHash(0)} : Recover(h)

\* a transaction of another wallet: its input data is empty ("0x") or is
\* not the UTF-8 text of a JSON object
OtherWalletTx ==
    /\ ledger = <<>>
    /\ \E kind \in {"empty", "binary"} :
        ledger' = Append(ledger, [hash |-> TxHash(Len(ledger) + 1),
                                    data |-> [kind |-> kind, text |-> <<>>],
                                    status |-> "success"])
    /\ UNCHANGED <<clock, dbVars, call, storeCalls, verifyCalls, lastVerify,
                   anchorCalls, recovered, lastRetrieve, modelCalls, utilVars>>

(* ------------- DatabaseService and AgriChainService, retrieval -------- *)

\* the members of s from the last to the first (ORDER BY ... DESC over rows
\* that were inserted in date order)
Reverse(s) == [i \in DOMAIN s |-> s[Len(s) + 1 - i]]

\* getFilesByDataId(dataId); filesOk says whether its SELECT succeeds
getFilesByDataId(dataId, filesOk) ==
    IF filesOk
    THEN Reverse(SelectSeq(uploaded_files, LAMBDA f : f.data_id = dataId))
    ELSE <<>>

\* getVerificationLogs(dataId); logsOk says whether its SELECT succeeds
getVerificationLogs(dataId, logsOk) ==
    IF logsOk
    THEN Reverse(SelectSeq(verification_logs, LAMBDA l : l.data_id = dataId))
    ELSE <<>>

\* DatabaseService.storeAgriData(agriData, blockchainData, files) called by
\* worker p with a request body, its digest and a transaction hash
DbStoreCall(p, agriData, transactionHash, files) ==
    /\ call[p].pc \in {"idle", "done", "failed"}
    /\ storeCalls < MaxStores
    /\ storeCalls' = storeCalls + 1
    /\ call' = [call EXCEPT ![p] = [IdleCall EXCEPT !.pc = "anchored",
                                                     !.agriData = agriData,
                                                     !.files = files,
                                                     !.hash = generateHash(agriData),
                                                     !.tx = transactionHash]]
    /\ UNCHANGED <<clock, ledger, dbVars, verifyCalls, lastVerify, anchorCalls,
                   recovered, lastRetrieve, modelCalls, utilVars>>

\* a retrieveAgriData call whose identifier is id (type "id") or hash
Retrieving(id, hash, type) ==
    [NoRetrieve EXCEPT !.called = TRUE, !.type = type, !.id = id, !.hash = hash]

\* retrieveAgriData without the try/catch around
\* retrieveHashFromBlockchain: an error of the ledger ends the call
RetrieveResultLedgerThrows(id, hash, type, db, rpcOk) ==
    LET rows == MatchingRows(IF type = "id" THEN id ELSE hash, type)
    IN  IF \/ db = "select-failed"
           \/ Len(rows) = 0
           \/ RecoverOutcome(rows[1].transaction_hash, rpcOk).status
                  \notin {"success", "failed"}
        THEN [Retrieving(id, hash, type) EXCEPT !.db = db, !.err = "ERROR"]
        ELSE [Retrieving(id, hash, type) EXCEPT
                 !.db = db,
                 !.ledger = RecoverOutcome(rows[1].transaction_hash, rpcOk).status,
                 !.success = TRUE,
                 !.record = <<rows[1]>>,
                 !.files = IF rows[1].has_files
                           THEN getFilesByDataId(rows[1].data_id, db # "files-failed")
                           ELSE <<>>,
                 !.verificationHistory =
                     getVerificationLogs(rows[1].data_id, db # "logs-failed"),
                 !.blockchainConfirmed = TRUE]

\* AgriChainService.retrieveAgriData(identifier, type).  db says which query
\* of DatabaseService.retrieveAgriData fails, if any; rpcOk says whether the
\* RPC calls of retrieveHashFromBlockchain answer
RetrieveResult(id, hash, type, db, rpcOk) ==
    LET rows == MatchingRows(IF type = "id" THEN id ELSE hash, type)
    IN  IF db = "select-failed"
        THEN [Retrieving(id, hash, type) EXCEPT !.db = db, !.err = "DB_ERROR"]
        ELSE IF Len(rows) = 0
        THEN [Retrieving(id, hash, type) EXCEPT !.db = db, !.err = "NOT_FOUND"]
        ELSE LET databaseData == rows[1]
                 blockchainData ==
                     IF databaseData.transaction_hash # <<>>
                     THEN RecoverOutcome(databaseData.transaction_hash, rpcOk)
                     ELSE NoRecover
             IN  [Retrieving(id, hash, type) EXCEPT
                     !.db = db,
                     !.ledger = blockchainData.status,
                     !.success = TRUE,
                     !.record = <<databaseData>>,
                     !.files = IF databaseData.has_files
                               THEN getFilesByDataId(databaseData.data_id,
                                                     db # "files-failed")
                               ELSE <<>>,
                     !.verificationHistory =
                         getVerificationLogs(databaseData.data_id, db # "logs-failed"),
                     !.blockchainConfirmed =
                         blockchainData.status \in {"success", "failed"},
                     !.proofConfirmed =
                         IF blockchainData.status \in {"success", "failed"}
                         THEN blockchainData.status = "success" \/ TRUE
                         ELSE TRUE]

Retrieve(id, hash, type) ==
    /\ \E db \in {"ok", "select-failed", "files-failed", "logs-failed"},
          rpcOk \in BOOLEAN :
        lastRetrieve' = RetrieveResult(id, hash, type, db, rpcOk)
    /\ UNCHANGED <<clock, ledger, dbVars, call, storeCalls, verifyCalls, lastVerify,
                   anchorCalls, recovered, modelCalls, utilVars>>

RetrieveById == \E n \in 1..(Len(agricultural_data) + 1) : Retrieve(n, <<>>, "id")

RetrieveByHash == \E h \in KnownHashes : Retrieve(0, h, "hash")

\* DatabaseService.logVerification(dataId, isValid, "hash_comparison",
\* details) called on its own for a stored row
LogVerificationCall(dataId, isValid) ==
    /\ verifyCalls < MaxVerifies
    /\ verifyCalls' = verifyCalls + 1
    /\ dataId \in DOMAIN agricultural_data
    /\ \E logOk \in BOOLEAN :
        verification_logs' =
            IF logOk
            THEN Append(verification_logs,
                        VerificationRow(dataId, isValid,
                                        [transactionHash |-> agricultural_data[dataId].transaction_hash,
                                         currentHash |-> agricultural_data[dataId].data_hash,
                                         storedHash |-> agricultural_data[dataId].data_hash],
                                        clock))
            ELSE verification_logs
    /\ UNCHANGED <<clock, ledger, farmers, agricultural_data, blockchain_transactions,
                   uploaded_files, system_logs, storedInput, call, storeCalls,
                   lastVerify, anchorCalls, recovered, lastRetrieve, modelCalls, utilVars>>

(* ----------------------------- the model layer ------------------------ *)

\* objects handed to AgriculturalData.updateAgriculturalData: a status, a
\* note, a digest, and a status that is not in validStatuses
UpdateInput(i) ==
    CASE i = 1 -> <<<<"status", "Verified">>>>
      [] i = 2 -> <<<<"notes", "reviewed">>>>
      [] i = 3 -> <<<<"data_hash", With0x(Rep("b", HashHexLen))>>>>
      [] i = 4 -> <<<<"status", "Deleted">>>>

UpdateInputs == 1..4

validStatuses == {"Active", "Inactive", "Pending", "Verified", "Rejected"}

\* validateAgriculturalData(data, true): the checks that apply to the keys
\* of the update objects above
validateAgriculturalData(data) ==
    /\ Has(data, "data_hash") => IsHexString32(Get(data, "data_hash"))
    /\ Has(data, "status") => Get(data, "status") \in validStatuses

\* BaseModel.update: UPDATE table SET key = value, ... for every key of data
RECURSIVE SetColumns(_, _)
SetColumns(row, data) ==
    IF data = <<>> THEN row
    ELSE SetColumns([row EXCEPT ![Head(data)[1]] = Head(data)[2]], Tail(data))

\* AgriculturalData.updateAgriculturalData(dataId, updateData): validation,
\* findById, then BaseModel.update.  (data_id is the place of the row: no
\* operation of the model removes a row of agricultural_data.)
updateAgriculturalData(dataId, updateData) ==
    /\ modelCalls < MaxModelCalls
    /\ modelCalls' = modelCalls + 1
    /\ \E ok \in BOOLEAN :
        agricultural_data' =
            IF ok /\ validateAgriculturalData(updateData)
                  /\ dataId \in DOMAIN agricultural_data
            THEN [agricultural_data EXCEPT ![dataId] = SetColumns(@, updateData)]
            ELSE agricultural_data
    /\ UNCHANGED <<clock, ledger, farmers, blockchain_transactions, uploaded_files,
                   verification_logs, system_logs, storedInput, call, storeCalls,
                   verifyCalls, lastVerify, anchorCalls, recovered, lastRetrieve, utilVars>>

\* AgriculturalData.updateFileInfo(dataId, fileCount, totalSize)
updateFileInfo(dataId, fileCount) ==
    /\ modelCalls < MaxModelCalls
    /\ modelCalls' = modelCalls + 1
    /\ \E ok \in BOOLEAN :
        agricultural_data' =
            IF ok /\ dataId \in DOMAIN agricultural_data
            THEN [agricultural_data EXCEPT
                     ![dataId] = SetColumns(@, <<<<"has_files", fileCount > 0>>,
                                                 <<"file_count", fileCount>>>>)]
            ELSE agricultural_data
    /\ UNCHANGED <<clock, ledger, farmers, blockchain_transactions, uploaded_files,
                   verification_logs, system_logs, storedInput, call, storeCalls,
                   verifyCalls, lastVerify, anchorCalls, recovered, lastRetrieve, utilVars>>

\* VerificationLogs.updateVerificationLog(logId, {is_valid: isValid}):
\* validateVerificationData, findById, then BaseModel.update.  (A log row is
\* named by its place in the table: any row that exists can be named.)
updateVerificationLog(logId, isValid) ==
    /\ modelCalls < MaxModelCalls
    /\ modelCalls' = modelCalls + 1
    /\ \E ok \in BOOLEAN :
        verification_logs' =
            IF ok /\ logId \in DOMAIN verification_logs
            THEN [verification_logs EXCEPT
                     ![logId] = SetColumns(@, <<<<"is_valid", isValid>>>>)]
            ELSE verification_logs
    /\ UNCHANGED <<clock, ledger, farmers, agricultural_data, blockchain_transactions,
                   uploaded_files, system_logs, storedInput, call, storeCalls,
                   verifyCalls, lastVerify, anchorCalls, recovered, lastRetrieve, utilVars>>

\* VerificationLogs.delete(logId), the delete of BaseModel:
\* DELETE FROM verification_logs WHERE log_id = @id
deleteVerificationLog(logId) ==
    /\ modelCalls < MaxModelCalls
    /\ modelCalls' = modelCalls + 1
    /\ \E ok \in BOOLEAN :
        verification_logs' =
            IF ok /\ logId \in DOMAIN verification_logs
            THEN [i \in 1..(Len(verification_logs) - 1) |->
                     IF i < logId THEN verification_logs[i]
                     ELSE verification_logs[i + 1]]
            ELSE verification_logs
    /\ UNCHANGED <<clock, ledger, farmers, agricultural_data, blockchain_transactions,
                   uploaded_files, system_logs, storedInput, call, storeCalls,
                   verifyCalls, lastVerify, anchorCalls, recovered, lastRetrieve, utilVars>>

(* ------------------------ controllers and errorHandler ---------------- *)

\* validateRequiredFields(fields)(req): the fields that are undefined, null
\* or the empty string
validateRequiredFields(fields, data) == SelectSeq(fields, LAMBDA f : Get(data, f) = "")

\* errorHandler: the response to an error named name, with the given code
\* and statusCode (0 and "" where the error has none)
errorHandler(name, code, statusCode) ==
    IF name = "ValidationError"
    THEN [status |-> IF statusCode # 0 THEN statusCode ELSE 400,
          code |-> "VALIDATION_ERROR"]
    ELSE IF name = "BlockchainError"
    THEN [status |-> IF statusCode # 0 THEN statusCode ELSE 500,
          code |-> IF code # "" THEN code ELSE "BLOCKCHAIN_ERROR"]
    ELSE IF name = "DatabaseError"
    THEN [status |-> IF statusCode # 0 THEN statusCode ELSE 500,
          code |-> IF code # "" THEN code ELSE "DATABASE_ERROR"]
    ELSE [status |-> IF statusCode # 0 THEN statusCode ELSE 500,
          code |-> IF code # "" THEN code ELSE "INTERNAL_ERROR"]

\* sendResponse(res, success(result, message))
OkResponse == [status |-> 200, code |-> ""]

\* POST /store for a Store call c that is over: validateRequiredFields, then
\* storeAgriDataController, whose catch throws
\* new BlockchainError(`Failed to store agricultural data: ...`).  (The
\* field values of the model stand for strings that pass validateString.)
storeAgriDataController(c) ==
    IF validateRequiredFields(requiredFields, c.agriData) # <<>>
    THEN errorHandler("ValidationError", "VALIDATION_ERROR", 400)
    ELSE IF c.pc = "done" THEN OkResponse
    ELSE errorHandler("BlockchainError", "BLOCKCHAIN_ERROR", 500)

\* POST /verify for the Verify call v: verifyAgriDataController, whose catch
\* throws new ValidationError(`Data verification failed: ...`)
verifyAgriDataController(v) ==
    IF v.err = "" THEN OkResponse
    ELSE errorHandler("ValidationError", "VALIDATION_ERROR", 400)

\* GET /retrieve/:identifier/:type for the call r: retrieveAgriDataController,
\* whose catch reads type and identifier, constants of the try block that
\* are not in scope there: a ReferenceError goes to errorHandler
retrieveAgriDataController(r) ==
    IF r.success THEN OkResponse
    ELSE errorHandler("ReferenceError", "", 0)

(* --------------------------- specifications --------------------------- *)

\* the server when it is sent one request at a time: Store requests served
\* by one worker, Verify requests, the clock
Next ==
    \/ Tick
    \/ \E agriData \in AgriInputs, files \in FileInputs : StoreCall(1, agriData, files)
    \/ TxSend(1)
    \/ TxWait(1)
    \/ FarmerCheck(1)
    \/ FarmerInsert(1)
    \/ StoreRow(1)
    \/ StoreTx(1)
    \/ StoreFile(1)
    \/ LogOperation(1)
    \/ VerifyById
    \/ VerifyByHash

Spec == Init /\ [][Next]_vars

\* the server under concurrent Store requests: every await of a worker is a
\* point where the other worker can run
NextConcurrent ==
    \/ Tick
    \/ \E p \in Procs, agriData \in AgriInputs, files \in FileInputs :
           StoreCall(p, agriData, files)
    \/ \E p \in Procs : TxSend(p)
    \/ \E p \in Procs : TxWait(p)
    \/ \E p \in Procs : FarmerCheck(p)
    \/ \E p \in Procs : FarmerInsert(p)
    \/ \E p \in Procs : StoreRow(p)
    \/ \E p \in Procs : StoreTx(p)
    \/ \E p \in Procs : StoreFile(p)
    \/ \E p \in Procs : LogOperation(p)

SpecConcurrent == Init /\ [][NextConcurrent]_vars

\* BlockchainService used on its own: anchor a digest, then read it back
NextAnchor ==
    \/ Tick
    \/ \E d \in DigestInputs, m \in MetadataInputs :
           AnchorCall(DigestInput(d), MetadataInput(m))
    \/ TxSend(Direct)
    \/ TxWait(Direct)
    \/ RecoverAny

SpecAnchor == Init /\ [][NextAnchor]_vars

\* the record that the direct calls of DatabaseService store
DirectInput == MkAgri("F1", "Delta", "1000", "")

\* retrieval of one record: one transaction, of this wallet or of another
\* one, may be on the ledger; DatabaseService.storeAgriData stores one record
\* with the hash of that transaction or with a hash the ledger does not
\* hold; the record is verified, and retrieved once the call that stores it
\* is over
NextRetrieve ==
    \/ ledger = <<>> /\ AnchorCall(DigestInput(1), MetadataInput(1))
    \/ TxSend(Direct)
    \/ TxWait(Direct)
    \/ anchorCalls = 0 /\ OtherWalletTx
    \/ /\ storeCalls = 0
       /\ \E files \in FileInputs,
             h \in {ledger[i].hash : i \in DOMAIN ledger} \cup {TxHash(0)} :
              DbStoreCall(1, DirectInput, h, files)
    \/ FarmerCheck(1)
    \/ FarmerInsert(1)
    \/ StoreRow(1)
    \/ StoreTx(1)
    \/ StoreFile(1)
    \/ LogOperation(1)
    \/ \E n \in DOMAIN agricultural_data, isValid \in BOOLEAN : LogVerificationCall(n, isValid)
    \/ Returned(1) /\ RetrieveById
    \/ Returned(1) /\ RetrieveByHash

SpecRetrieve == Init /\ [][NextRetrieve]_vars

\* the model layer at work on a record that DatabaseService.storeAgriData
\* has stored and logVerification has logged
NextModels ==
    \/ /\ storeCalls = 0
       /\ \E files \in FileInputs : DbStoreCall(1, DirectInput, TxHash(0), files)
    \/ FarmerCheck(1)
    \/ FarmerInsert(1)
    \/ StoreRow(1)
    \/ StoreTx(1)
    \/ StoreFile(1)
    \/ LogOperation(1)
    \/ \E n \in DOMAIN agricultural_data, isValid \in BOOLEAN : LogVerificationCall(n, isValid)
    \/ \E n \in 1..(Len(agricultural_data) + 1), u \in UpdateInputs :
           updateAgriculturalData(n, UpdateInput(u))
    \/ \E n \in DOMAIN agricultural_data, k \in {0, MaxFiles} : updateFileInfo(n, k)
    \/ \E n \in DOMAIN verification_logs, isValid \in BOOLEAN : updateVerificationLog(n, isValid)
    \/ \E n \in DOMAIN verification_logs : deleteVerificationLog(n)

SpecModels == Init /\ [][NextModels]_vars

\* DatabaseService.storeAgriData called again and again, with the hash of
\* one transaction or of another
NextDatabase ==
    \/ \E agriData \in AgriInputs, files \in FileInputs, h \in {TxHash(0), TxHash(1)} :
           DbStoreCall(1, agriData, h, files)
    \/ FarmerCheck(1)
    \/ FarmerInsert(1)
    \/ StoreRow(1)
    \/ StoreTx(1)
    \/ StoreFile(1)
    \/ LogOperation(1)

SpecDatabase == Init /\ [][NextDatabase]_vars

(* ------------------------------ rateLimiter --------------------------- *)

\* the options of each limiter instance
WindowMsOf(l) == IF l = "global" THEN GlobalWindowMs ELSE BlockchainWindowMs

MaxRequestsOf(l) == IF l = "global" THEN GlobalMaxRequests ELSE BlockchainMaxRequests

\* skipPaths.some((path) => req.path.startsWith(path)): only the limiter of
\* app.js has a skipPaths entry, "/api/health"
Skipped(l, route) == l = "global" /\ route = "health"

\* requests.filter((timestamp) => timestamp > windowStart)
InWindow(requests, windowStart) == SelectSeq(requests, LAMBDA t : t > windowStart)

\* cleanupOldEntries(windowStart): every client's entries are filtered, and
\* a client left with none is deleted
cleanupOldEntries(store, windowStart) ==
    [c \in {k \in DOMAIN store : InWindow(store[k], windowStart) # <<>>}
        |-> InWindow(store[c], windowStart)]

\* the middleware that rateLimiter(options) returns, for the instance l and a
\* request of clientId on route at currentTime: the Map afterwards, and
\* whether next was called (otherwise the response is 429)
rateLimiter(l, clientId, route, store, currentTime) ==
    IF Skipped(l, route) THEN [store |-> store, next |-> TRUE, counted |-> FALSE]
    ELSE LET windowStart == currentTime - WindowMsOf(l)
             cleaned == cleanupOldEntries(store, windowStart)
             withClient == [c \in DOMAIN cleaned \cup {clientId} |->
                               IF c \in DOMAIN cleaned THEN cleaned[c] ELSE <<>>]
             requestsInWindow == InWindow(withClient[clientId], windowStart)
         IN  IF Len(requestsInWindow) >= MaxRequestsOf(l)
             THEN [store |-> withClient, next |-> FALSE, counted |-> FALSE]
             ELSE [store |-> [withClient EXCEPT
                                 ![clientId] = Append(requestsInWindow, currentTime)],
                   next |-> TRUE, counted |-> TRUE]

\* the history of the calls of next that the limiter l counted
Admit(l, clientId, r) ==
    IF r.counted
    THEN [admitted EXCEPT ![l][clientId] = Append(@, clock)]
    ELSE admitted

\* where a request that passed the limiter of app.js goes on: the GET routes
\* run to their handler in the same turn; POST /store waits for its body;
\* the routes of /api/files have rateLimiter itself as their middleware,
\* which builds a limiter and returns: no response is sent and next is not
\* called
AfterGlobal(route) ==
    IF route = "store" THEN "body"
    ELSE IF route = "files" THEN "stalled"
    ELSE "handler"

\* a request of client c arrives and meets app.use(rateLimiter({...}))
Receive(c, route) ==
    /\ requestCount < MaxRequests
    /\ request[c].at # "body"
    /\ requestCount' = requestCount + 1
    /\ LET r == rateLimiter("global", c, route, requestStore, clock)
       IN  /\ requestStore' = r.store
           /\ admitted' = Admit("global", c, r)
           /\ request' = [request EXCEPT ![c] =
                             [route |-> route,
                              at |-> IF r.next THEN AfterGlobal(route) ELSE "429"]]
    /\ UNCHANGED <<clock, ledger, dbVars, call, storeCalls, verifyCalls, lastVerify,
                   anchorCalls, recovered, lastRetrieve, modelCalls, combinedCalls>>

\* router.post("/store", blockchainRateLimiter, ...): the body of the
\* request was read and the request meets the limiter of the route
StoreRoute(c) ==
    /\ request[c].at = "body"
    /\ LET r == rateLimiter("blockchain", c, "store", requestStore, clock)
       IN  /\ requestStore' = r.store
           /\ admitted' = Admit("blockchain", c, r)
           /\ request' = [request EXCEPT ![c].at =
                             IF r.next THEN "handler" ELSE "429"]
    /\ UNCHANGED <<clock, ledger, dbVars, call, storeCalls, verifyCalls, lastVerify,
                   anchorCalls, recovered, lastRetrieve, modelCalls, combinedCalls,
                   requestCount>>

\* a caller of HashService.generateCombinedHash(data, files)
CombinedHashCall ==
    /\ Len(combinedCalls) < MaxCombined
    /\ \E data \in AgriInputs, files \in CombinedFileInputs :
        combinedCalls' = Append(combinedCalls,
                                [data |-> data, files |-> files, at |-> clock,
                                 result |-> generateCombinedHash(data, files, clock)])
    /\ UNCHANGED <<clock, ledger, dbVars, call, storeCalls, verifyCalls, lastVerify,
                   anchorCalls, recovered, lastRetrieve, modelCalls, requestStore,
                   request, admitted, requestCount>>

\* HashService.generateCombinedHash called with every data and file list
NextCombined ==
    \/ Tick
    \/ CombinedHashCall

SpecCombined == Init /\ [][NextCombined]_vars

\* HTTP requests of two clients on the routes, up to their handlers
NextLimiter ==
    \/ Tick
    \/ \E c \in Clients, route \in Routes : Receive(c, route)
    \/ \E c \in Clients : StoreRoute(c)

SpecLimiter == Init /\ [][NextLimiter]_vars

\* Store calls of one worker, one after the other
NextStore ==
    \/ Tick
    \/ \E agriData \in AgriInputs, files \in FileInputs : StoreCall(1, agriData, files)
    \/ TxSend(1)
    \/ TxWait(1)
    \/ FarmerCheck(1)
    \/ FarmerInsert(1)
    \/ StoreRow(1)
    \/ StoreTx(1)
    \/ StoreFile(1)
    \/ LogOperation(1)

\* the steps of the service itself: the RPC and every query of the store
\* are answered, with a result or with an error
ServiceFairness ==
    /\ WF_vars(TxSend(1))
    /\ WF_vars(FarmerCheck(1))
    /\ WF_vars(FarmerInsert(1))
    /\ WF_vars(StoreRow(1))
    /\ WF_vars(StoreTx(1))
    /\ WF_vars(StoreFile(1))
    /\ WF_vars(LogOperation(1))

\* the Store calls on a ledger that may never mine a transaction: tx.wait()
\* has no timeout argument, and nothing makes TxWait happen
SpecStoreLive == Init /\ [][NextStore]_vars /\ ServiceFairness

\* the same on a ledger that mines every transaction in the end
SpecStoreMined == SpecStoreLive /\ WF_vars(TxWait(1))

(* ------------------------------ properties ---------------------------- *)

\* the latest Verify call found a row and compared digests
Compared == lastVerify.called /\ lastVerify.status \in {"VERIFIED", "TAMPERED"}

\* C1: a record stored by a Store call that succeeded, verified later with
\* the field values it was stored with and the id of its row, is VERIFIED
C1_UnchangedRecordVerifies ==
    (/\ Compared
     /\ \E p \in Procs : call[p].pc = "done" /\ call[p].dataId = lastVerify.dataId
     /\ lastVerify.data = storedInput[lastVerify.dataId])
    => lastVerify.status = "VERIFIED"

\* C2 as stated: Verify of a stored record with any record that differs from
\* it in a hashed field answers TAMPERED
C2_AnyChangedRecordIsTampered ==
    (/\ lastVerify.called
     /\ lastVerify.dataId # 0
     /\ lastVerify.data # storedInput[lastVerify.dataId])
    => lastVerify.status = "TAMPERED"

\* C2, amended: Verify of a stored record with a record that differs from it
\* in a hashed field answers TAMPERED when that record has all required
\* fields, whatever the clock, and ends with the missing-fields error when
\* it lacks one; it never answers VERIFIED
C2_ChangedRecordIsTampered ==
    (/\ lastVerify.called
     /\ lastVerify.dataId # 0
     /\ lastVerify.data # storedInput[lastVerify.dataId])
    => lastVerify.status = IF missingFields(lastVerify.data) = <<>>
                           THEN "TAMPERED" ELSE "ERROR"

\* C2 witness: a stored record was verified, at a clock value above 0, with
\* a complete record of other field values, and the answer was TAMPERED
C2_Witness ==
    /\ lastVerify.called
    /\ lastVerify.dataId # 0
    /\ lastVerify.data # storedInput[lastVerify.dataId]
    /\ missingFields(lastVerify.data) = <<>>
    /\ lastVerify.status = "TAMPERED"
    /\ clock > 0

\* C3: the digest of a record does not depend on the clock: computed again
\* at any later time over the field values a row was stored from, it equals
\* the digest computed at Store time
C3_DigestIsDeterministic ==
    \A i \in DOMAIN agricultural_data :
        createAgriDataHash(storedInput[i], clock).hash = agricultural_data[i].data_hash

\* C4: the number of rows of verification_logs equals the number of
\* verification attempts made, whatever their outcome
C4_OneLogRowPerAttempt == Len(verification_logs) = verifyCalls

\* rows of uploaded_files that belong to the record dataId
FileRows(dataId) == SelectSeq(uploaded_files, LAMBDA f : f.data_id = dataId)

\* C5: once DatabaseService.storeAgriData has returned or thrown, a record
\* row has one file row for each file supplied to the call
C5_RecordAndFilesAtomic ==
    \A p \in Procs :
        (Returned(p) /\ call[p].rowStored)
        => Len(FileRows(call[p].dataId)) = Len(call[p].files)

\* C6: a Store call that failed after its ledger transaction was confirmed
\* has left no agricultural_data row behind
C6_FailedStoreLeavesNoRow ==
    \A p \in Procs :
        (call[p].pc = "failed" /\ call[p].anchored)
        => \A i \in DOMAIN agricultural_data :
               agricultural_data[i].transaction_hash # call[p].tx

\* C7: under concurrent Store calls no call fails on the insert of the
\* farmers row, and farmers holds at most one row for an id
C7_ConcurrentEnsureFarmerIsSafe ==
    /\ \A p \in Procs : call[p].err # "PRIMARY_KEY_farmers"
    /\ \A i, j \in DOMAIN farmers :
           farmers[i].farmer_id = farmers[j].farmer_id => i = j

\* a Store call of worker p is beyond ensureFarmerExists
FarmerEnsured(p) ==
    call[p].pc \in {"farmerOk", "rowStored", "files", "logOperation", "done"}
    \/ (call[p].pc = "failed" /\ call[p].rowStored)

\* C8: ensureFarmerExists called one call after the other: a call never
\* fails because the farmer has a row already, every call that got through
\* leaves exactly one row for its farmerId, and no step changes or removes
\* a row that exists
C8_EnsureFarmerIdempotent ==
    /\ [](\A p \in Procs :
            /\ call[p].err # "PRIMARY_KEY_farmers"
            /\ FarmerEnsured(p)
               => Len(FarmerRows(Get(call[p].agriData, "farmerId"))) = 1)
    /\ [][/\ Len(farmers') >= Len(farmers)
          /\ \A i \in DOMAIN farmers : farmers'[i] = farmers[i]]_vars

\* C8 witness: a second Store call for a farmer who has a row went through
\* ensureFarmerExists with a farmerInfo that names the farmer otherwise
C8_Witness ==
    /\ storeCalls = 2
    /\ call[1].pc = "farmerOk"
    /\ Len(farmers) = 1
    /\ farmers[1].farmer_id = Get(call[1].agriData, "farmerId")
    /\ farmers[1].full_name # FullNameOf(Get(call[1].agriData, "farmerId"),
                                         FarmerInfoOf(call[1].agriData))

\* the direct call of storeHashOnBlockchain went through and the latest
\* retrieveHashFromBlockchain read its transaction back
ReadBack ==
    /\ call[Direct].pc = "anchored"
    /\ recovered.called
    /\ recovered.tx = call[Direct].tx
    /\ recovered.status = "success"

\* C9: the envelope read back from the transaction of
\* storeHashOnBlockchain(d, m) holds d in its hash field
C9_AnchorRoundTrip == ReadBack => recovered.storedHash = call[Direct].hash

\* the character class [a-f0-9]
IsLowerHexChar(c) == c \in Range(HexLower)

\* "0x" followed by exactly 64 lowercase hex characters
CanonicalDigest(d) ==
    /\ StartsWith0x(d)
    /\ Len(d) = PrefixLen + HashHexLen
    /\ \A i \in (PrefixLen + 1)..Len(d) : IsLowerHexChar(d[i])

\* C10: a digest of any other shape than the canonical one is rejected with
\* an invalid-digest error and no transaction is submitted for it
C10_OnlyCanonicalDigestsAccepted ==
    (call[Direct].pc # "idle" /\ ~CanonicalDigest(call[Direct].hash))
    => /\ call[Direct].pc = "failed"
       /\ call[Direct].err \in {"INVALID_HASH", "INVALID_HASH_LENGTH"}
       /\ call[Direct].tx = <<>>

\* the transaction that retrieveHashFromBlockchain was asked for, as the
\* ledger holds it: "absent", or the status of the transaction ("pending"
\* while it has no receipt)
LedgerStatusOf(transactionHash) ==
    LET found == {i \in DOMAIN ledger : ledger[i].hash = transactionHash}
    IN  IF found = {} THEN "absent" ELSE ledger[CHOOSE i \in found : TRUE].status

\* C11: retrieveHashFromBlockchain, when its RPC calls answer for a well
\* formed transaction hash, fails with the not-found error when the
\* transaction or its receipt is absent, fails with the not-confirmed error
\* when the receipt shows another status than success, and returns a result
\* only for a transaction whose receipt shows success
C11_RecoverOnlyConfirmed ==
    [][(recovered' # recovered
        /\ recovered'.status \notin {"INVALID_TX_HASH", "HASH_RETRIEVAL_ERROR"})
       => LET seen == LedgerStatusOf(recovered'.tx)
          IN  /\ seen \in {"absent", "pending"} => recovered'.status = "TX_NOT_FOUND"
              /\ seen = "reverted" => recovered'.status = "TX_NOT_CONFIRMED"
              /\ recovered'.status \in {"success", "failed"} => seen = "success"]_vars

\* the rows that match the identifier of the latest retrieveAgriData call
RetrievedRows(r) == MatchingRows(IF r.type = "id" THEN r.id ELSE r.hash, r.type)

\* C12: a retrieveAgriData call whose identifier matches a row, and whose
\* queries of the relational store succeed, returns success with that row,
\* the file rows and the verification_logs rows of the record, whatever
\* retrieveHashFromBlockchain does (error of the RPC, transaction not found,
\* not confirmed, payload absent or not decodable)
C12_RetrieveSurvivesLedger ==
    [][(/\ lastRetrieve' # lastRetrieve
        /\ lastRetrieve'.db = "ok"
        /\ RetrievedRows(lastRetrieve') # <<>>)
       => LET row == RetrievedRows(lastRetrieve')[1]
          IN  /\ lastRetrieve'.success
              /\ lastRetrieve'.err = ""
              /\ lastRetrieve'.record = <<row>>
              /\ Range(lastRetrieve'.files) =
                     {f \in Range(uploaded_files) : f.data_id = row.data_id}
              /\ Len(lastRetrieve'.files) = Len(FileRows(row.data_id))
              /\ Range(lastRetrieve'.verificationHistory) =
                     {l \in Range(verification_logs) : l.data_id = row.data_id}]_vars

\* C12 witness: a record with files and a verification log was retrieved
\* with success while the receipt of its transaction was missing
C12_Witness ==
    /\ lastRetrieve.success
    /\ lastRetrieve.ledger = "TX_NOT_CONFIRMED"
    /\ lastRetrieve.files # <<>>
    /\ lastRetrieve.verificationHistory # <<>>

\* C13: when the INSERT of logVerification fails, verifyAgriDataIntegrity
\* still returns the verdict of the hash comparison, VERIFIED or TAMPERED,
\* and raises no error
C13_LogFailureKeepsVerdict ==
    [][(/\ verifyCalls' # verifyCalls
        /\ lastVerify'.dataId # 0
        /\ missingFields(lastVerify'.data) = <<>>
        /\ verification_logs' = verification_logs)
       => /\ lastVerify'.err = ""
          /\ lastVerify'.status \in {"VERIFIED", "TAMPERED"}
          /\ lastVerify'.status =
                 VerifyResult(lastVerify'.data,
                              agricultural_data[lastVerify'.dataId], clock).status]_vars

\* C13 witness: a Verify call compared the digests and returned TAMPERED
\* while its row of verification_logs could not be written
C13_Witness ==
    /\ lastVerify.called
    /\ lastVerify.status = "TAMPERED"
    /\ ~lastVerify.logged
    /\ verifyCalls = 1
    /\ verification_logs = <<>>

\* the category of an error where it is raised
ErrorCategory(err) ==
    IF err \in {"MISSING_FIELDS", "INVALID_HASH", "INVALID_HASH_LENGTH"} THEN "validation"
    ELSE IF err = "HASH_STORAGE_ERROR" THEN "ledger"
    ELSE IF err = "NOT_FOUND" THEN "not-found"
    ELSE "persistence"

\* the category that a response shows to the client
ResponseCategory(response) ==
    IF response.code = "VALIDATION_ERROR" THEN "validation"
    ELSE IF response.status = 404 THEN "not-found"
    ELSE IF response.code = "BLOCKCHAIN_ERROR" THEN "ledger"
    ELSE IF response.code = "DATABASE_ERROR" THEN "persistence"
    ELSE "internal"

\* C14: the response of the Store, Retrieve and Verify endpoints to a call
\* that failed shows the category of the error that ended the call:
\* validation for missing input, ledger for a failure of the ledger,
\* not-found for an identifier that matches nothing
C14_ErrorCategoryPreserved ==
    /\ call[1].pc = "failed"
       => ResponseCategory(storeAgriDataController(call[1])) = ErrorCategory(call[1].err)
    /\ (lastVerify.called /\ lastVerify.err # "")
       => ResponseCategory(verifyAgriDataController(lastVerify)) = ErrorCategory(lastVerify.err)
    /\ (lastRetrieve.called /\ ~lastRetrieve.success)
       => ResponseCategory(retrieveAgriDataController(lastRetrieve))
              = ErrorCategory(lastRetrieve.err)

C16_MissingFieldsNoSideEffect ==
    /\ [](\A p \in Procs :
            (call[p].pc # "idle" /\ missingFields(call[p].agriData) # <<>>)
            => /\ call[p].pc = "failed"
               /\ call[p].err = "MISSING_FIELDS"
               /\ call[p].hash = <<>>
               /\ call[p].tx = <<>>
               /\ ~call[p].rowStored)
    /\ [][(storeCalls' # storeCalls /\ missingFields(call'[1].agriData) # <<>>)
          => /\ ledger' = ledger
             /\ farmers' = farmers
             /\ agricultural_data' = agricultural_data
             /\ blockchain_transactions' = blockchain_transactions
             /\ uploaded_files' = uploaded_files
             /\ system_logs' = system_logs]_vars

\* C16 witness: after a first Store call had stored its record, a second
\* one, without location, was rejected
C16_Witness ==
    /\ storeCalls = 2
    /\ call[1].pc = "failed"
    /\ call[1].err = "MISSING_FIELDS"
    /\ Get(call[1].agriData, "location") = ""
    /\ Len(agricultural_data) = 1
    /\ Len(ledger) = 1

\* the rows of agricultural_data that carry the transaction hash h
RowsOfTx(h) == SelectSeq(agricultural_data, LAMBDA r : r.transaction_hash = h)

\* C17: when AgriChainService.storeAgriData has returned success, exactly
\* one row of agricultural_data belongs to the call; its status is Active,
\* its data_hash is the dataHash returned, and its transaction_hash names a
\* ledger transaction with status success whose payload holds that same
\* digest in its hash field
C17_SuccessfulStoreIsConsistent ==
    /\ Len(agricultural_data) <= storeCalls
    /\ \A p \in Procs :
        call[p].pc = "done"
        => /\ Len(RowsOfTx(call[p].tx)) = 1
           /\ LET row == RowsOfTx(call[p].tx)[1]
              IN  /\ row.data_id = call[p].dataId
                  /\ row.status = "Active"
                  /\ row.data_hash = call[p].hash
                  /\ LedgerStatusOf(row.transaction_hash) = "success"
                  /\ Get(JSONParse(ledger[TxIndex(row.transaction_hash)].data.text),
                         "hash") = call[p].hash

\* C17 witness: the second Store call of a behaviour has returned success
\* and agricultural_data holds the rows of both calls
C17_Witness ==
    /\ storeCalls = 2
    /\ call[1].pc = "done"
    /\ Len(agricultural_data) = 2
    /\ Len(ledger) = 2

\* blockchain_transactions holds a row for the transaction hash h
HasTxRow(h) ==
    \E i \in DOMAIN blockchain_transactions :
        blockchain_transactions[i].transaction_hash = h

\* C18: DatabaseService.storeAgriData called with a transaction hash that
\* has a row in blockchain_transactions: the duplicate is not an error of
\* the call, the step that meets it leaves the record row and the table
\* blockchain_transactions as they were and goes on to the files, the call
\* that returns has a file row for every file, and blockchain_transactions
\* never holds two rows for one transaction_hash
C18_DuplicateTxRowTolerated ==
    /\ [](/\ call[1].err # "UNIQUE_KEY_blockchain_transactions"
          /\ \A i, j \in DOMAIN blockchain_transactions :
                 blockchain_transactions[i].transaction_hash
                     = blockchain_transactions[j].transaction_hash => i = j
          /\ call[1].pc = "done"
             => /\ call[1].dataId \in DOMAIN agricultural_data
                /\ HasTxRow(call[1].tx)
                /\ Len(FileRows(call[1].dataId)) = Len(call[1].files))
    /\ [][(/\ call[1].pc = "rowStored"
           /\ HasTxRow(call[1].tx)
           /\ call'[1].pc # "rowStored"
           /\ call'[1].err # "DB_ERROR")
          => /\ call'[1].pc = AfterTx(1)
             /\ agricultural_data' = agricultural_data
             /\ blockchain_transactions' = blockchain_transactions]_vars

\* C18 witness: a second call with the transaction hash of the first one,
\* and with files, has returned; both record rows exist and the transaction
\* has one row
C18_Witness ==
    /\ storeCalls = 2
    /\ call[1].pc = "done"
    /\ Len(agricultural_data) = 2
    /\ agricultural_data[1].transaction_hash = agricultural_data[2].transaction_hash
    /\ Len(blockchain_transactions) = 1
    /\ Len(call[1].files) = MaxFiles
    /\ Len(FileRows(call[1].dataId)) = MaxFiles

\* C20: one Store call submits at most one ledger transaction. The ledger
\* never holds more transactions than Store calls were made; a transaction
\* is appended only by a call that waits in sendTransaction, which leaves
\* that position with the step; a call enters sendTransaction only as a new
\* call; a failed submission or a failed confirmation ends the call with the
\* step that meets it; and after the anchor is confirmed the call appends
\* nothing, also when persistence fails
C20_AtMostOneSubmission ==
    /\ [](Len(ledger) <= storeCalls)
    /\ [][/\ Len(ledger') > Len(ledger)
             => /\ Len(ledger') = Len(ledger) + 1
                /\ call[1].pc = "sending"
                /\ ~call[1].anchored
                /\ call'[1].pc = "waiting"
          /\ (call'[1].pc = "sending" /\ call[1].pc # "sending")
             => storeCalls' = storeCalls + 1
          /\ (call[1].pc = "sending" /\ call'[1] # call[1] /\ ledger' = ledger)
             => call'[1].pc = "failed"
          /\ (call[1].pc = "waiting" /\ call'[1] # call[1])
             => /\ call'[1].pc \in {"anchored", "failed"}
                /\ Len(ledger') = Len(ledger)
          /\ (call[1].anchored /\ storeCalls' = storeCalls)
             => Len(ledger') = Len(ledger)]_vars

\* C20 witness: persistence failed after the anchor of the call was
\* confirmed, and the ledger holds the one transaction of that call
C20_Witness ==
    /\ storeCalls = 1
    /\ call[1].pc = "failed"
    /\ call[1].err = "DB_ERROR"
    /\ call[1].anchored
    /\ Len(ledger) = 1
    /\ ledger[1].hash = call[1].tx
    /\ ledger[1].status = "success"

\* C21: every uploaded_files row that a Store call wrote holds a digest in
\* file_hash: no row has an empty file_hash
C21_FileRowsHoldDigest ==
    \A i \in DOMAIN uploaded_files : uploaded_files[i].file_hash # ""

\* C22: generateCombinedHash is sensitive to file order. Two calls with the
\* same data and the same two files of different contents in opposite
\* orders return different combinedHash values, and two calls with the same
\* data and the same files in the same order return the same combinedHash
C22_CombinedHashOrderSensitive ==
    \A i, j \in DOMAIN combinedCalls :
        LET a == combinedCalls[i]
            b == combinedCalls[j]
        IN  /\ (/\ a.data = b.data
                /\ Len(a.files) = 2
                /\ a.files[1].content # a.files[2].content
                /\ b.files = <<a.files[2], a.files[1]>>)
               => a.result.combinedHash # b.result.combinedHash
            /\ (a.data = b.data /\ a.files = b.files)
               => a.result.combinedHash = b.result.combinedHash

\* C22 witness: the same data was hashed with two files of different
\* contents and then, one millisecond later, with the two files swapped
C22_Witness ==
    /\ Len(combinedCalls) = 2
    /\ combinedCalls[1].data = combinedCalls[2].data
    /\ Len(combinedCalls[1].files) = 2
    /\ combinedCalls[1].files[1].content # combinedCalls[1].files[2].content
    /\ combinedCalls[2].files
           = <<combinedCalls[1].files[2], combinedCalls[1].files[1]>>
    /\ combinedCalls[1].at # combinedCalls[2].at

\* the calls of next among the times a that fall in the window that ends
\* with the i-th of them
AdmittedInWindow(a, i, windowMs) ==
    Cardinality({j \in DOMAIN a : j <= i /\ a[j] > a[i] - windowMs})

\* C29: each limiter calls next for at most maxRequests requests of one
\* client within any interval of windowMs
C29_LimiterBoundsEachWindow ==
    \A l \in Limiters, c \in Clients :
        \A i \in DOMAIN admitted[l][c] :
            AdmittedInWindow(admitted[l][c], i, WindowMsOf(l)) <= MaxRequestsOf(l)

\* C30: no request to a route of /api/files is left at the rate-limiting
\* step of the route without a response and without a call of next
C30_FilesRequestNeverStalls ==
    \A c \in Clients : request[c].route = "files" => request[c].at # "stalled"

\* C23: in a Store call the farmer row is ensured before the ledger
\* transaction is submitted: the step that appends the transaction of a call
\* finds a farmers row for the farmerId of the call, and a call that failed
\* with an error of the store while the farmer has no row (a failure inside
\* ensureFarmerExists) has no transaction on the ledger
C23_FarmerEnsuredBeforeAnchor ==
    /\ [][Len(ledger') > Len(ledger)
          => FarmerRows(Get(call[1].agriData, "farmerId")) # <<>>]_vars
    /\ [](/\ call[1].pc = "failed"
          /\ call[1].err = "DB_ERROR"
          /\ FarmerRows(Get(call[1].agriData, "farmerId")) = <<>>
          => \A i \in DOMAIN ledger : ledger[i].hash # call[1].tx)

\* C24: under concurrent Store calls the submissions of the one wallet are
\* serialized: no two calls are inside wallet.sendTransaction at once
C24_SubmissionsSerialized ==
    \A p, q \in Procs :
        (call[p].pc = "sending" /\ call[q].pc = "sending") => p = q

\* C25: every Store call returns to its caller in the end, with success or
\* with an error, also when the ledger never reports a receipt
C25_StoreCallReturns ==
    (call[1].pc \notin {"idle", "done", "failed"}) ~> Returned(1)

C27_LogRowMatchesVerdict ==
    /\ \A i \in DOMAIN verification_logs :
        LET r == verification_logs[i]
        IN  /\ r.data_id \in DOMAIN agricultural_data
            /\ r.stored_hash = agricultural_data[r.data_id].data_hash
            /\ r.is_valid = (r.stored_hash = r.current_hash)
    /\ (lastVerify.called /\ lastVerify.logged)
       => LET r == verification_logs[Len(verification_logs)]
          IN  /\ r.data_id = lastVerify.dataId
              /\ r.current_hash
                     = createAgriDataHash(lastVerify.data, r.verification_date).hash
              /\ (lastVerify.status = "VERIFIED") = r.is_valid
              /\ (lastVerify.status = "TAMPERED") = ~r.is_valid

\* C27 witness: a stored record was verified with a record whose quantity
\* differs; the answer was TAMPERED and the log row has is_valid false and
\* two different digests
C27_Witness ==
    /\ lastVerify.called
    /\ lastVerify.logged
    /\ lastVerify.status = "TAMPERED"
    /\ Get(lastVerify.data, "quantity") # Get(storedInput[lastVerify.dataId], "quantity")
    /\ verification_logs[1].is_valid = FALSE
    /\ verification_logs[1].stored_hash # verification_logs[1].current_hash

\* C28: a retrieveAgriData response reports the anchor as confirmed, in
\* blockchainProof.confirmed or in verification.blockchainConfirmed, only
\* when the call obtained a receipt with success status for the transaction
\* of the record
C28_ConfirmedOnlyWithReceipt ==
    lastRetrieve.success
    => /\ lastRetrieve.proofConfirmed => lastRetrieve.ledger = "success"
       /\ lastRetrieve.blockchainConfirmed => lastRetrieve.ledger = "success"

====
